---- MODULE Spec2Model ----
(***************************************************************************)
(* kitchenconv: a one-shot command-line converter for kitchen units.       *)
(* The model follows src/kitchenconv.cpp statement by statement: the       *)
(* token loop of main, the unit and density registries (std::map), the     *)
(* suggestion ranking (string_distance + std::sort), the quantity parser   *)
(* and the conversion arithmetic.                                          *)
(*                                                                         *)
(* Representation choices:                                                 *)
(*  - a std::string is a sequence of one-character strings;                *)
(*  - a double is an exact rational <<num, den>> in lowest terms, den = 0  *)
(*    standing for the IEEE specials (<<1,0>> = inf, <<-1,0>> = -inf,      *)
(*    <<0,0>> = NaN);                                                      *)
(*  - a std::size_t is a 64-bit word, four 16-bit limbs, most significant  *)
(*    first, so that the arithmetic of string_distance is modulo 2^64.     *)
(***************************************************************************)
EXTENDS Integers, Sequences, FiniteSets, TLC

(***************************************************************************)
(* Characters and strings                                                  *)
(***************************************************************************)

\* The characters the model uses, in ascending order of their ASCII code.
AsciiOrder ==
    << "-", ".", "/", "0", "1", "2", "3", "4", "5", "6", "7", "8", "9",
       "C", "F", "I", "N", "O", "T",
       "a", "b", "c", "d", "e", "f", "g", "h", "i", "k", "l", "m", "n", "o",
       "p", "r", "s", "t", "u", "w", "x", "y", "z" >>

\* The string terminator, which operator[] yields at index size().
NUL == "NUL"

Code(c) == IF c = NUL THEN 0 ELSE CHOOSE i \in 1..Len(AsciiOrder) : AsciiOrder[i] = c

UpperCase == << "C", "F", "I", "N", "O", "T" >>
LowerCase == << "c", "f", "i", "n", "o", "t" >>

\* std::tolower on one character.
tolower_char(c) ==
    IF \E i \in 1..Len(UpperCase) : UpperCase[i] = c
    THEN LowerCase[CHOOSE i \in 1..Len(UpperCase) : UpperCase[i] = c]
    ELSE c

\* tolower(std::string): every character lowered, length kept.
tolower(s) == [i \in 1..Len(s) |-> tolower_char(s[i])]

\* std::less<std::string>: lexicographic comparison, a proper prefix first.
\* p is the first position where a ends or differs from b.
StrLess(a, b) ==
    \E p \in 1..Len(b) :
        /\ Len(a) >= p - 1
        /\ \A j \in 1..(p - 1) : a[j] = b[j]
        /\ (Len(a) = p - 1 \/ Code(a[p]) < Code(b[p]))

(***************************************************************************)
(* std::size_t: 64 bits as four 16-bit limbs                               *)
(***************************************************************************)

Limb == 2^16

\* A small natural number as a size_t.
ToSize(n) == << 0, 0, 0, n % Limb >>

\* std::size_t(-1).
SizeMax == << Limb - 1, Limb - 1, Limb - 1, Limb - 1 >>

\* a + b modulo 2^64 (the carry out of the top limb is dropped).
SizeAdd(a, b) ==
    LET s4 == a[4] + b[4]
        s3 == a[3] + b[3] + (s4 \div Limb)
        s2 == a[2] + b[2] + (s3 \div Limb)
        s1 == a[1] + b[1] + (s2 \div Limb)
    IN  << s1 % Limb, s2 % Limb, s3 % Limb, s4 % Limb >>

\* a < b on size_t.
SizeLess(a, b) ==
    IF a[1] # b[1] THEN a[1] < b[1]
    ELSE IF a[2] # b[2] THEN a[2] < b[2]
    ELSE IF a[3] # b[3] THEN a[3] < b[3]
    ELSE a[4] < b[4]

(***************************************************************************)
(* string_distance                                                         *)
(***************************************************************************)

\* s[j] with a 0-based j, as std::string::operator[] of the build gives it:
\* the character for j < size(), the terminator for j = size(), and for
\* j > size() (undefined behaviour) whatever byte `stale` lies behind it.
CharAt(s, j, stale) ==
    IF j < Len(s) THEN s[j + 1]
    ELSE IF j = Len(s) THEN NUL
    ELSE stale

\* The inner loop of string_distance: td after i has run over [0, n).
RECURSIVE inner_loop(_, _, _, _, _)
inner_loop(t, u, k, i, stale) ==
    IF i >= Len(t) THEN 0
    ELSE (IF CharAt(t, i + k, stale) # u[i + 1] THEN 1 ELSE 0)
         + inner_loop(t, u, k, i + 1, stale)

\* The outer loop of string_distance: best_d after k has run over [k, d).
RECURSIVE outer_loop(_, _, _, _, _)
outer_loop(t, u, k, best_d, stale) ==
    IF k >= Len(u) - Len(t) THEN best_d
    ELSE LET td == ToSize(inner_loop(t, u, k, 0, stale))
         IN  outer_loop(t, u, k + 1,
                        IF SizeLess(td, best_d) THEN td ELSE best_d, stale)

\* A variant that lays equal-length strings on each other at offset 0 instead
\* of leaving best_d at its initial value.
distance_equal_lengths_compared(t, u, stale) ==
    IF Len(u) = Len(t) THEN ToSize(inner_loop(t, u, 0, 0, stale))
    ELSE SizeAdd(ToSize(Len(u) - Len(t)), outer_loop(t, u, 0, SizeMax, stale))

\* string_distance with t the shorter argument (after the swap of line 41).
distance_ordered(t, u, stale) ==
    SizeAdd(ToSize(Len(u) - Len(t)), outer_loop(t, u, 0, SizeMax, stale))

string_distance(t, u, stale) ==
    IF Len(t) > Len(u) THEN distance_ordered(u, t, stale)
    ELSE distance_ordered(t, u, stale)

\* The reads string_distance performs, as <<index, size of the string read>>:
\* t[i+k] and u[i] for k in [0, d), i in [0, n), t the shorter argument.
reads_ordered(t, u) ==
    { << i + k, Len(t) >> : i \in 0..(Len(t) - 1), k \in 0..(Len(u) - Len(t) - 1) }
    \cup
    { << i, Len(u) >> : i \in { j \in 0..(Len(t) - 1) : Len(u) > Len(t) } }

string_reads(t, u) ==
    IF Len(t) > Len(u) THEN reads_ordered(u, t) ELSE reads_ordered(t, u)

(***************************************************************************)
(* std::sort as the GCC build (libstdc++) runs it                          *)
(***************************************************************************)

\* The comparator of both sort calls: less(x, y) iff D[x] < D[y], D the
\* string_distance of each key to the unknown name.
comp(x, y, D) == SizeLess(D[x], D[y])

swap(a, i, j) == [a EXCEPT ![i] = a[j], ![j] = a[i]]

S_threshold == 16

\* floor(log2(n)) for n >= 1.
RECURSIVE lg(_)
lg(n) == IF n <= 1 THEN 0 ELSE 1 + lg(n \div 2)

\* __unguarded_linear_insert: val sinks left while it is less than its left
\* neighbour.  (The library has no lower guard; index 1 is the array start.)
RECURSIVE unguarded_linear_insert(_, _, _, _)
unguarded_linear_insert(a, last, val, D) ==
    IF last > 1 /\ comp(val, a[last - 1], D)
    THEN unguarded_linear_insert([a EXCEPT ![last] = a[last - 1]], last - 1, val, D)
    ELSE [a EXCEPT ![last] = val]

\* __insertion_sort on [first, last), i the next element to insert.
RECURSIVE insertion_sort(_, _, _, _, _)
insertion_sort(a, first, i, last, D) ==
    IF i >= last THEN a
    ELSE IF comp(a[i], a[first], D)
         THEN insertion_sort(
                  SubSeq(a, 1, first - 1) \o << a[i] >> \o SubSeq(a, first, i - 1)
                      \o SubSeq(a, i + 1, Len(a)),
                  first, i + 1, last, D)
         ELSE insertion_sort(unguarded_linear_insert(a, i, a[i], D),
                             first, i + 1, last, D)

\* __unguarded_insertion_sort on [i, last).
RECURSIVE unguarded_insertion_sort(_, _, _, _)
unguarded_insertion_sort(a, i, last, D) ==
    IF i >= last THEN a
    ELSE unguarded_insertion_sort(unguarded_linear_insert(a, i, a[i], D),
                                  i + 1, last, D)

\* __final_insertion_sort on [first, last).
final_insertion_sort(a, first, last, D) ==
    IF last - first > S_threshold
    THEN unguarded_insertion_sort(
             insertion_sort(a, first, first + 1, first + S_threshold, D),
             first + S_threshold, last, D)
    ELSE insertion_sort(a, first, first + 1, last, D)

\* __move_median_to_first(result, x, y, z).
move_median_to_first(a, result, x, y, z, D) ==
    IF comp(a[x], a[y], D)
    THEN IF comp(a[y], a[z], D) THEN swap(a, result, y)
         ELSE IF comp(a[x], a[z], D) THEN swap(a, result, z)
         ELSE swap(a, result, x)
    ELSE IF comp(a[x], a[z], D) THEN swap(a, result, x)
         ELSE IF comp(a[y], a[z], D) THEN swap(a, result, z)
         ELSE swap(a, result, y)

RECURSIVE advance_first(_, _, _, _)
advance_first(a, f, pivot, D) ==
    IF comp(a[f], a[pivot], D) THEN advance_first(a, f + 1, pivot, D) ELSE f

RECURSIVE retreat_last(_, _, _, _)
retreat_last(a, l, pivot, D) ==
    IF comp(a[pivot], a[l], D) THEN retreat_last(a, l - 1, pivot, D) ELSE l

\* __unguarded_partition on [first, last) around a[pivot]: the array and the cut.
RECURSIVE unguarded_partition(_, _, _, _, _)
unguarded_partition(a, first, last, pivot, D) ==
    LET f == advance_first(a, first, pivot, D)
        l == retreat_last(a, last - 1, pivot, D)
    IN  IF ~(f < l) THEN [arr |-> a, cut |-> f]
        ELSE unguarded_partition(swap(a, f, l), f + 1, l, pivot, D)

\* __unguarded_partition_pivot on [first, last).
unguarded_partition_pivot(a, first, last, D) ==
    LET mid == first + ((last - first) \div 2)
    IN  unguarded_partition(
            move_median_to_first(a, first, first + 1, mid, last - 1, D),
            first + 1, last, first, D)

\* __introsort_loop on [first, last).  The heap-sort fallback at depth limit 0
\* cannot be taken for the registries of this program: the limit is
\* 2*lg(19) = 8 and a range longer than 16 is at most three levels deep.  The
\* branch is left without a value, so reaching it would stop the check.
RECURSIVE introsort_loop(_, _, _, _, _)
introsort_loop(a, first, last, depth_limit, D) ==
    IF last - first <= S_threshold THEN a
    ELSE IF depth_limit = 0 THEN CHOOSE x \in {} : TRUE
    ELSE LET p == unguarded_partition_pivot(a, first, last, D)
         IN  introsort_loop(
                 introsort_loop(p.arr, p.cut, last, depth_limit - 1, D),
                 first, p.cut, depth_limit - 1, D)

\* std::sort(v.begin(), v.end(), comparator on D).
std_sort(v, D) ==
    IF v = << >> THEN v
    ELSE final_insertion_sort(
             introsort_loop(v, 1, Len(v) + 1, 2 * lg(Len(v)), D),
             1, Len(v) + 1, D)

(***************************************************************************)
(* double arithmetic, exact                                                *)
(***************************************************************************)

Abs(n) == IF n < 0 THEN -n ELSE n
Sign(n) == IF n < 0 THEN -1 ELSE IF n > 0 THEN 1 ELSE 0

RECURSIVE Gcd(_, _)
Gcd(a, b) == IF b = 0 THEN a ELSE Gcd(b, a % b)

\* n/d in lowest terms with d > 0; d = 0 gives inf, -inf or NaN.
Norm(n, d) ==
    IF d = 0 THEN << Sign(n), 0 >>
    ELSE LET g == Gcd(Abs(n), Abs(d))
         IN  << (Sign(d) * n) \div g, Abs(d) \div g >>

\* a * b, cancelling across before multiplying.
Mul(a, b) ==
    LET g1 == Gcd(Abs(a[1]), b[2])
        g2 == Gcd(Abs(b[1]), a[2])
        h1 == IF g1 = 0 THEN 1 ELSE g1
        h2 == IF g2 = 0 THEN 1 ELSE g2
    IN  Norm((a[1] \div h1) * (b[1] \div h2), (a[2] \div h2) * (b[2] \div h1))

\* a / b.
Div(a, b) ==
    Mul(a, IF b[1] < 0 THEN << -b[2], -b[1] >> ELSE << b[2], b[1] >>)

\* a + b and a - b.
Add(a, b) == Norm(a[1] * b[2] + b[1] * a[2], a[2] * b[2])
Sub(a, b) == Add(a, << -b[1], b[2] >>)

\* A decimal literal m * 10^-e as a double.
Dec(m, e) == Norm(m, 10^e)

(***************************************************************************)
(* The registries                                                          *)
(***************************************************************************)

\* struct unit: a factor to SI and a kind; default-constructed {1, none}.
unit(c, ty) == [to_si |-> c, type |-> ty]
unit_default == unit(<< 1, 1 >>, "none")

unit_type_name(ty) ==
    IF ty \in {"temperature", "volume", "weight"} THEN ty ELSE "unknown"

\* The initializer list of density_table, in source order (kg/L).
density_init ==
    << << <<"f", "l", "o", "u", "r">>, Dec(5283, 4) >>,
       << <<"b", "u", "t", "t", "e", "r">>, Dec(9586, 4) >>,
       << <<"s", "u", "g", "a", "r">>, Dec(8453, 4) >>,
       << <<"s", "a", "l", "t">>, Dec(11548, 4) >>,
       << <<"b", "a", "k", "i", "n", "g", "-", "p", "o", "w", "d", "e", "r">>, Dec(11548, 4) >>,
       << <<"b", "a", "k", "i", "n", "g", "-", "s", "o", "d", "a">>, Dec(9337, 4) >>,
       << <<"b", "a", "k", "i", "n", "g", "-", "p", "o", "w", "d", "e", "r">>, Dec(7208, 4) >>,
       << <<"a", "l", "m", "o", "n", "d", "-", "f", "l", "o", "u", "r">>, Dec(5679, 4) >>,
       << <<"t", "o", "m", "a", "t", "o", "-", "p", "a", "s", "t", "e">>, Dec(11075, 4) >>,
       << <<"t", "o", "m", "a", "t", "o", "-", "p", "u", "r", "e", "e">>, Dec(11075, 4) >>,
       << <<"r", "i", "c", "e">>, Dec(8453, 4) >>,
       << <<"t", "o", "f", "u">>, Dec(10480, 4) >>,
       << <<"p", "a", "r", "m", "e", "s", "a", "n">>, Dec(4227, 4) >>,
       << <<"o", "i", "l">>, Dec(9215, 4) >>,
       << <<"w", "a", "t", "e", "r">>, Dec(10000, 4) >>,
       << <<"p", "a", "r", "s", "l", "e", "y">>, Dec(10566, 5) >>,
       << <<"b", "a", "s", "i", "l">>, Dec(10566, 5) >>,
       << <<"c", "i", "l", "a", "n", "t", "r", "o">>, Dec(10566, 5) >>,
       << <<"d", "i", "l", "l">>, Dec(10566, 5) >>,
       << <<"h", "e", "r", "b", "s">>, Dec(10566, 5) >> >>

\* The initializer list of unit_table, in source order.
unit_init ==
    << << <<"k", "g">>, unit(Dec(1, 0), "weight") >>,
       << <<"g">>, unit(Dec(1, 3), "weight") >>,
       << <<"m", "g">>, unit(Dec(1, 6), "weight") >>,
       << <<"l", "b">>, unit(Dec(4536, 4), "weight") >>,
       << <<"o", "z">>, unit(Dec(2835, 5), "weight") >>,
       << <<"l">>, unit(Dec(1, 0), "volume") >>,
       << <<"d", "l">>, unit(Dec(1, 1), "volume") >>,
       << <<"c", "l">>, unit(Dec(1, 2), "volume") >>,
       << <<"m", "l">>, unit(Dec(1, 3), "volume") >>,
       << <<"g", "a", "l">>, unit(Dec(3785, 3), "volume") >>,
       << <<"c", "u", "p">>, unit(Dec(2366, 4), "volume") >>,
       << <<"f", "l", "o", "z">>, unit(Dec(2957, 5), "volume") >>,
       << <<"t", "b", "s">>, unit(Dec(1479, 5), "volume") >>,
       << <<"t", "s">>, unit(Dec(493, 5), "volume") >>,
       << <<"c">>, unit(Dec(1, 0), "temperature") >>,
       << <<"f">>, unit(Dec(0, 0), "temperature") >> >>

\* A std::map is its entries [first, second] in ascending key order.
\* insert() leaves the map alone when the key is already present.
map_insert(m, e) ==
    IF \E j \in 1..Len(m) : m[j].first = e.first THEN m
    ELSE LET p == Cardinality({ j \in 1..Len(m) : StrLess(m[j].first, e.first) })
         IN  SubSeq(m, 1, p) \o << e >> \o SubSeq(m, p + 1, Len(m))

\* The map built from the first n entries of an initializer list.
RECURSIVE map_build(_, _)
map_build(init, n) ==
    IF n = 0 THEN << >>
    ELSE map_insert(map_build(init, n - 1),
                    [first |-> init[n][1], second |-> init[n][2]])

map_of(init) == map_build(init, Len(init))

\* find(): the position of the key, 0 for end().
map_find(m, k) ==
    IF \E j \in 1..Len(m) : m[j].first = k
    THEN CHOOSE j \in 1..Len(m) : m[j].first = k
    ELSE 0

\* The vector the range-for fills: the keys in iteration order.
map_keys(m) == << >> \o [j \in 1..Len(m) |-> m[j].first]

\* The names the initializer lists give.
UnitNames == { unit_init[j][1] : j \in 1..Len(unit_init) }
SubstanceNames == { density_init[j][1] : j \in 1..Len(density_init) }

\* The string_distance of every key to the unknown name, as the comparator of
\* make_unit and of the density branch computes it.
RECURSIVE distances(_, _, _)
distances(name, keys, stale) ==
    IF keys = << >> THEN << >>
    ELSE (Head(keys) :> string_distance(name, Head(keys), stale))
         @@ distances(name, Tail(keys), stale)

\* Every read of every string_distance call the ranking may make.
ranking_reads(name, keys) ==
    UNION { string_reads(name, keys[i]) : i \in 1..Len(keys) }

(***************************************************************************)
(* The quantity parser                                                     *)
(*                                                                         *)
(* operator>> is modelled on tokens made of digits, '.', '/' and letters,  *)
(* with no sign, no blank and no exponent (a digit followed by 'e'); the   *)
(* input sets below hold only such tokens.                                 *)
(***************************************************************************)

Digits == << "0", "1", "2", "3", "4", "5", "6", "7", "8", "9" >>

IsDigit(c) == \E j \in 1..10 : Digits[j] = c
DigitVal(c) == (CHOOSE j \in 1..10 : Digits[j] = c) - 1
AllDigits(s) == \A j \in 1..Len(s) : IsDigit(s[j])

\* The value of a string of digits ("" gives 0).
RECURSIVE digits_value(_)
digits_value(s) ==
    IF s = << >> THEN 0
    ELSE 10 * digits_value(SubSeq(s, 1, Len(s) - 1)) + DigitVal(s[Len(s)])

\* std::string::find_first_of(c): the 0-based position, or npos as -1.
find_first_of(s, c) ==
    IF \E j \in 1..Len(s) : s[j] = c
    THEN (CHOOSE j \in 1..Len(s) : s[j] = c /\ \A h \in 1..(j - 1) : s[h] # c) - 1
    ELSE -1

NoValue == << 0, 0 >>

\* from_string<std::size_t>: digits only, all consumed.
from_string_size(s) ==
    IF s # << >> /\ AllDigits(s)
    THEN [ok |-> TRUE, v |-> digits_value(s)]
    ELSE [ok |-> FALSE, v |-> 0]

\* from_string<double>: digits [. digits], at least one digit, all consumed.
from_string_double(s) ==
    LET dot == find_first_of(s, ".")
        ip  == IF dot = -1 THEN s ELSE SubSeq(s, 1, dot)
        fp  == IF dot = -1 THEN << >> ELSE SubSeq(s, dot + 2, Len(s))
    IN  IF AllDigits(ip) /\ AllDigits(fp) /\ Len(ip) + Len(fp) > 0
        THEN [ok |-> TRUE,
              v  |-> Norm(digits_value(ip) * 10^Len(fp) + digits_value(fp),
                          10^Len(fp))]
        ELSE [ok |-> FALSE, v |-> NoValue]

\* The block that sets quantity_float: "a/b" as two integers, else a double.
parse_quantity(q) ==
    LET slash_pos == find_first_of(q, "/")
    IN  IF slash_pos # -1
        THEN LET up  == from_string_size(SubSeq(q, 1, slash_pos))
                 low == from_string_size(SubSeq(q, slash_pos + 2, Len(q)))
             IN  IF ~up.ok \/ ~low.ok THEN [ok |-> FALSE, v |-> NoValue]
                 ELSE [ok |-> TRUE, v |-> Div(<< up.v, 1 >>, << low.v, 1 >>)]
        ELSE from_string_double(q)

(***************************************************************************)
(* The conversion                                                          *)
(***************************************************************************)

\* A variant that opens the density branch for weight to volume only.
needs_density_one_way(f, t) ==
    f.type = "weight" /\ t.type = "volume"

\* The test that opens the density branch.
needs_density(f, t) ==
    \/ (f.type = "weight" /\ t.type = "volume")
    \/ (f.type = "volume" /\ t.type = "weight")

\* A variant that relabels a volume source as a weight without applying the
\* density to its factor.
rescale_source_unscaled(f, t, density_si) ==
    IF f.type = "volume"
    THEN << unit(f.to_si, "weight"), t >>
    ELSE IF t.type = "volume"
    THEN << f, unit(Mul(t.to_si, density_si), "weight") >>
    ELSE << f, t >>

\* The density applied to the volume-side unit, which becomes a weight.
rescale(f, t, density_si) ==
    IF f.type = "volume"
    THEN << unit(Mul(f.to_si, density_si), "weight"), t >>
    ELSE IF t.type = "volume"
    THEN << f, unit(Mul(t.to_si, density_si), "weight") >>
    ELSE << f, t >>

\* A variant with the Fahrenheit-to-Celsius offset outside the product.
convert_offset_outside(q, f, t) ==
    IF f.type = "temperature"
    THEN IF f.to_si = t.to_si THEN q
         ELSE IF f.to_si # << 0, 1 >>
         THEN Add(Mul(Div(<< 9, 1 >>, << 5, 1 >>), q), << 32, 1 >>)
         ELSE Sub(Mul(Div(<< 5, 1 >>, << 9, 1 >>), q), << 32, 1 >>)
    ELSE Div(Mul(q, f.to_si), t.to_si)

\* The result computed from quantity_float and the two units.
convert(q, f, t) ==
    IF f.type = "temperature"
    THEN IF f.to_si = t.to_si THEN q
         ELSE IF f.to_si # << 0, 1 >>
         THEN Add(Mul(Div(<< 9, 1 >>, << 5, 1 >>), q), << 32, 1 >>)
         ELSE Mul(Div(<< 5, 1 >>, << 9, 1 >>), Sub(q, << 32, 1 >>))
    ELSE Div(Mul(q, f.to_si), t.to_si)

(***************************************************************************)
(* The inputs                                                              *)
(***************************************************************************)

\* Bounds of the input sets.
MaxArgs == 5
MaxName == 3

\* All sequences over S of length 0..n.
RECURSIVE SeqsUpTo(_, _)
SeqsUpTo(S, n) ==
    IF n = 0 THEN { << >> }
    ELSE LET shorter == SeqsUpTo(S, n - 1)
         IN  shorter \cup { Append(x, c) : x \in { y \in shorter : Len(y) = n - 1 }, c \in S }

\* Arbitrary argument lists: every list of up to MaxArgs of these tokens (the
\* last one is the empty argument).
ShapeTokens == { <<"1">>, <<"k", "g">>, <<"t", "o">>, <<"o", "f">>, << >> }
ShapeArgs == SeqsUpTo(ShapeTokens, MaxArgs)

\* An optional substance, with or without the literal "of".
Substance(names) ==
    { << >> } \cup { << n >> : n \in names } \cup { << <<"o", "f">>, n >> : n \in names }

Request(qs, froms, ofs, seps, tos, ots) ==
    { << q, f >> \o o1 \o << s, u >> \o o2 :
        q \in qs, f \in froms, o1 \in ofs, s \in seps, u \in tos, o2 \in ots }

\* Conversions between every two units, with and without a substance.
ConvQuantities == { <<"1">>, <<"3", "/", "4">>, <<"1", ".", "5">> }
ConvArgs ==
    Request(ConvQuantities, UnitNames,
            { << >>, << <<"b", "u", "t", "t", "e", "r">> >>, << <<"o", "f">>, <<"o", "i", "l">> >> },
            { <<"t", "o">> }, UnitNames, { << >> })

\* Temperatures, in either letter case.
TempQuantities == { <<"4", "0", "0">>, <<"3", "2">>, <<"0">> }
TempUnits == { <<"c">>, <<"f">>, <<"C">>, <<"F">> }
TempArgs ==
    Request(TempQuantities, TempUnits, { << >> },
            { <<"i", "n">>, <<"I", "N">>, <<"T", "o">> }, TempUnits, { << >> })

\* Faulty requests: bad numbers, unknown units, substances on both sides.
FaultQuantities == { <<"1">>, <<"x">>, <<"1", "/", "x">> }
FaultUnits == { <<"k", "g">>, <<"l">>, <<"c">>, <<"x">> }
FaultSubstances == { <<"b", "u", "t", "t", "e", "r">>, <<"x", "x">> }
FaultArgs ==
    Request(FaultQuantities, FaultUnits, Substance(FaultSubstances),
            { <<"t", "o">> }, FaultUnits, Substance({ <<"s", "u", "g", "a", "r">>, <<"x", "x">> }))

\* Quantities of every spelling, well formed or not, in one plain request.
NumberTokens ==
    { <<"0">>, <<"1", "0">>, <<"5", ".">>, <<".", "5">>, <<"1", ".", "2", "5">>, <<"1", "/", "0">>, <<"0", "/", "0">>, <<"6", "/", "4">>, <<".">>, <<"1", ".", "2", ".", "3">>, <<"/", "2">>, <<"3", "/">>, <<"1", "/", "2", "/", "3">>, <<"1", "/", "/", "2">>, <<"1", ".", "5", "/", "2">>, <<"k", "g">> }
NumberArgs ==
    Request(NumberTokens, { <<"k", "g">> }, { << >> }, { <<"t", "o">> },
            { <<"g">> }, { << >> })

\* Every name of up to MaxName letters, as a unit and as a substance.
NameLetters == { "k", "g", "l" }
Names == SeqsUpTo(NameLetters, MaxName)
NameArgs ==
    { << <<"1">>, n, <<"t", "o">>, <<"k", "g">> >> : n \in Names }
    \cup { << <<"1">>, <<"k", "g">>, <<"t", "o">>, n >> : n \in Names }
    \cup { << <<"1">>, <<"l">>, <<"t", "o">>, <<"k", "g">>, n >> : n \in Names }

Args ==
    ShapeArgs \cup ConvArgs \cup TempArgs \cup FaultArgs \cup NumberArgs \cup NameArgs

\* The bytes that may lie behind a string's terminator.
StaleChars == { NUL, "k", "l" }

(***************************************************************************)
(* The program state                                                       *)
(***************************************************************************)

VARIABLES
    unit_table,     \* the global std::map of units
    density_table,  \* the global std::map of densities
    argv,           \* argv[1..argc-1], the arguments after the program name
    pc,             \* the statement main is at
    i,              \* the token loop's index (argv[i], 1-based as in main)
    quantity, unit_from, object_from, unit_to, object_to, to_found,
    object,         \* the substance of the request
    uf, ut,         \* the source and target units
    quantity_float, \* the parsed quantity
    result,         \* the converted quantity
    cout, cerr,     \* the lines written to standard output and standard error
    exit_code,      \* main's return value, -1 while it runs
    rank,           \* the last suggestion ranking: name, distances, reads, list
    rt              \* the round trip's forward result and final result

tables == << unit_table, density_table >>

vars == << unit_table, density_table, argv, pc, i, quantity, unit_from, object_from, unit_to, object_to,
           to_found, object, uf, ut, quantity_float, result, cout, cerr,
           exit_code, rank, rt >>

NoRank == [done |-> FALSE, name |-> << >>, keys |-> << >>, D |-> << >>,
           reads |-> {}, list |-> << >>]

NoTrip == [q |-> NoValue, there |-> NoValue, back |-> NoValue]

\* The locals of main before its first statement.
Locals ==
    /\ i = 1
    /\ quantity = << >> /\ unit_from = << >> /\ object_from = << >>
    /\ unit_to = << >> /\ object_to = << >> /\ to_found = FALSE
    /\ object = << >>
    /\ uf = unit_default /\ ut = unit_default
    /\ quantity_float = NoValue
    /\ result = << 0, 1 >>
    /\ cout = << >> /\ cerr = << >>
    /\ exit_code = -1
    /\ rank = NoRank
    /\ rt = NoTrip

\* The globals as their constructors leave them.
Globals ==
    /\ unit_table = map_of(unit_init)
    /\ density_table = map_of(density_init)

Init ==
    /\ Globals
    /\ argv \in Args
    /\ pc = "start"
    /\ Locals

\* return 1 after writing `lines` to standard error.
Fail(lines) ==
    /\ cerr' = cerr \o lines
    /\ exit_code' = 1
    /\ pc' = "done"

\* The suggestion ranking printed for an unknown name.
suggest(name, keys, stale) ==
    LET D == distances(name, keys, stale)
    IN  [done |-> TRUE, name |-> name, keys |-> keys, D |-> D,
         reads |-> ranking_reads(name, keys), list |-> std_sort(keys, D)]

(***************************************************************************)
(* main                                                                    *)
(***************************************************************************)

\* if (argc < 5): the usage text goes to std::cout, return 1.
Usage ==
    /\ pc = "start"
    /\ Len(argv) + 1 < 5
    /\ cout' = cout \o << << "usage examples:" >>, << "example", 1 >>,
                          << "example", 2 >>, << "example", 3 >>,
                          << "example", 4 >>, << "example", 5 >> >>
    /\ exit_code' = 1
    /\ pc' = "done"
    /\ UNCHANGED << tables, argv, i, quantity, unit_from, object_from, unit_to,
                    object_to, to_found, object, uf, ut, quantity_float,
                    result, cerr, rank, rt >>

Enter ==
    /\ pc = "start"
    /\ ~(Len(argv) + 1 < 5)
    /\ pc' = "scan"
    /\ UNCHANGED << tables, argv, i, quantity, unit_from, object_from, unit_to,
                    object_to, to_found, object, uf, ut, quantity_float,
                    result, cout, cerr, exit_code, rank, rt >>

\* One iteration of the token loop.
ScanToken ==
    /\ pc = "scan"
    /\ i <= Len(argv)
    /\ LET tok == tolower(argv[i])
       IN  IF tok = <<"t", "o">> \/ tok = <<"i", "n">>
           THEN IF to_found
                THEN /\ Fail(<< << "syntax error: multiple 'to' or 'in' not allowed" >> >>)
                     /\ UNCHANGED << i, quantity, unit_from, object_from,
                                     unit_to, object_to, to_found >>
                ELSE /\ to_found' = TRUE
                     /\ i' = i + 1
                     /\ UNCHANGED << quantity, unit_from, object_from, unit_to,
                                     object_to, cerr, exit_code, pc >>
           ELSE IF quantity = << >>
           THEN /\ quantity' = tok
                /\ i' = i + 1
                /\ UNCHANGED << unit_from, object_from, unit_to, object_to,
                                to_found, cerr, exit_code, pc >>
           ELSE IF unit_from = << >>
           THEN /\ unit_from' = tok
                /\ i' = i + 1
                /\ UNCHANGED << quantity, object_from, unit_to, object_to,
                                to_found, cerr, exit_code, pc >>
           ELSE IF ~to_found /\ object_from = << >>
           THEN /\ object_from' = IF tok # <<"o", "f">> THEN tok ELSE object_from
                /\ i' = i + 1
                /\ UNCHANGED << quantity, unit_from, unit_to, object_to,
                                to_found, cerr, exit_code, pc >>
           ELSE IF to_found /\ unit_to = << >>
           THEN /\ unit_to' = tok
                /\ i' = i + 1
                /\ UNCHANGED << quantity, unit_from, object_from, object_to,
                                to_found, cerr, exit_code, pc >>
           ELSE IF to_found /\ object_to = << >>
           THEN /\ object_to' = IF tok # <<"o", "f">> THEN tok ELSE object_to
                /\ i' = i + 1
                /\ UNCHANGED << quantity, unit_from, object_from, unit_to,
                                to_found, cerr, exit_code, pc >>
           ELSE /\ Fail(<< << "syntax error: expected" >> >>)
                /\ UNCHANGED << i, quantity, unit_from, object_from, unit_to,
                                object_to, to_found >>
    /\ UNCHANGED << tables, argv, object, uf, ut, quantity_float, result, cout, rank, rt >>

\* A variant that does not compare the substances of the two sides.
CheckObjects_unchecked ==
    /\ pc = "scan"
    /\ ~(i <= Len(argv))
    /\ object' = IF object_from = << >> THEN object_to ELSE object_from
    /\ pc' = "unit_from"
    /\ UNCHANGED << cerr, exit_code >>
    /\ UNCHANGED << tables, argv, i, quantity, unit_from, object_from, unit_to,
                    object_to, to_found, uf, ut, quantity_float, result, cout,
                    rank, rt >>

\* After the loop: the substances of the two sides must agree.
CheckObjects ==
    /\ pc = "scan"
    /\ ~(i <= Len(argv))
    /\ IF object_from # << >> /\ object_to # << >> /\ object_to # object_from
       THEN /\ Fail(<< << "error: cannot convert a quantity of", object_from,
                          object_to >> >>)
            /\ UNCHANGED object
       ELSE /\ object' = IF object_from = << >> THEN object_to ELSE object_from
            /\ pc' = "unit_from"
            /\ UNCHANGED << cerr, exit_code >>
    /\ UNCHANGED << tables, argv, i, quantity, unit_from, object_from, unit_to,
                    object_to, to_found, uf, ut, quantity_float, result, cout,
                    rank, rt >>

\* make_unit(u, name): the unit found, or the error and the suggestions.
make_unit(name, next, set_uf) ==
    IF map_find(unit_table, name) # 0
    THEN /\ uf' = IF set_uf THEN unit_table[map_find(unit_table, name)].second ELSE uf
         /\ ut' = IF set_uf THEN ut ELSE unit_table[map_find(unit_table, name)].second
         /\ pc' = next
         /\ UNCHANGED << cerr, exit_code, rank >>
    ELSE \E stale \in StaleChars :
            LET r == suggest(name, map_keys(unit_table), stale)
            IN  /\ rank' = r
                /\ Fail(<< << "error: unknown unit", name >>,
                           << "note: known units:", r.list >> >>)
                /\ UNCHANGED << uf, ut >>

MakeUnitFrom ==
    /\ pc = "unit_from"
    /\ make_unit(unit_from, "unit_to", TRUE)
    /\ UNCHANGED << tables, argv, i, quantity, unit_from, object_from, unit_to,
                    object_to, to_found, object, quantity_float, result, cout,
                    rt >>

MakeUnitTo ==
    /\ pc = "unit_to"
    /\ make_unit(unit_to, "quantity", FALSE)
    /\ UNCHANGED << tables, argv, i, quantity, unit_from, object_from, unit_to,
                    object_to, to_found, object, quantity_float, result, cout,
                    rt >>

\* The block that computes quantity_float.
ParseQuantity ==
    /\ pc = "quantity"
    /\ LET p == parse_quantity(quantity)
       IN  IF ~p.ok
           THEN /\ Fail(<< << "error: could not convert into a number", quantity >> >>)
                /\ UNCHANGED quantity_float
           ELSE /\ quantity_float' = p.v
                /\ pc' = "density"
                /\ UNCHANGED << cerr, exit_code >>
    /\ UNCHANGED << tables, argv, i, quantity, unit_from, object_from, unit_to,
                    object_to, to_found, object, uf, ut, result, cout, rank, rt >>

\* The weight/volume branch: the substance's density rescales the volume unit.
Density ==
    /\ pc = "density"
    /\ IF needs_density(uf, ut)
       THEN IF object = << >>
            THEN /\ Fail(<< << "error: requires knowing the substance", unit_from,
                               unit_type_name(uf.type), unit_to,
                               unit_type_name(ut.type) >> >>)
                 /\ UNCHANGED << uf, ut, rank >>
            ELSE IF map_find(density_table, object) = 0
            THEN \E stale \in StaleChars :
                    LET r == suggest(object, map_keys(density_table), stale)
                    IN  /\ rank' = r
                        /\ Fail(<< << "error: the density is unknown", object >>,
                                   << "note: known densities:", r.list >> >>)
                        /\ UNCHANGED << uf, ut >>
            ELSE LET scaled == rescale(uf, ut,
                                    density_table[map_find(density_table, object)].second)
                 IN  /\ uf' = scaled[1]
                     /\ ut' = scaled[2]
                     /\ pc' = "kinds"
                     /\ UNCHANGED << cerr, exit_code, rank >>
       ELSE /\ pc' = "kinds"
            /\ UNCHANGED << uf, ut, cerr, exit_code, rank >>
    /\ UNCHANGED << tables, argv, i, quantity, unit_from, object_from, unit_to,
                    object_to, to_found, object, quantity_float, result, cout,
                    rt >>

\* The kinds must agree by now.
CheckKinds ==
    /\ pc = "kinds"
    /\ IF uf.type # ut.type
       THEN Fail(<< << "error: cannot convert from", unit_from,
                       unit_type_name(uf.type), unit_to,
                       unit_type_name(ut.type) >> >>)
       ELSE /\ pc' = "compute"
            /\ UNCHANGED << cerr, exit_code >>
    /\ UNCHANGED << tables, argv, i, quantity, unit_from, object_from, unit_to,
                    object_to, to_found, object, uf, ut, quantity_float,
                    result, cout, rank, rt >>

Compute ==
    /\ pc = "compute"
    /\ result' = convert(quantity_float, uf, ut)
    /\ pc' = "print"
    /\ UNCHANGED << tables, argv, i, quantity, unit_from, object_from, unit_to,
                    object_to, to_found, object, uf, ut, quantity_float, cout,
                    cerr, exit_code, rank, rt >>

\* The result line goes to std::cout, return 0.
PrintResult ==
    /\ pc = "print"
    /\ cout' = cout \o << << "result", quantity, unit_from, object, result,
                             unit_to >> >>
    /\ exit_code' = 0
    /\ pc' = "done"
    /\ UNCHANGED << tables, argv, i, quantity, unit_from, object_from, unit_to,
                    object_to, to_found, object, uf, ut, quantity_float,
                    result, cerr, rank, rt >>

Next ==
    \/ Usage
    \/ Enter
    \/ ScanToken
    \/ CheckObjects
    \/ MakeUnitFrom
    \/ MakeUnitTo
    \/ ParseQuantity
    \/ Density
    \/ CheckKinds
    \/ Compute
    \/ PrintResult

Spec == Init /\ [][Next]_vars

(***************************************************************************)
(* The conversion applied there and back                                   *)
(***************************************************************************)

TripTokens == { <<"0">>, <<"1">>, <<"3", "/", "4">>, <<"1", ".", "5">>, <<"1", "0">>, <<"3", "2">>, <<"4", "0", "0">> }
TripQuantities == { parse_quantity(q).v : q \in TripTokens }

\* Any quantity and any two units of one kind, looked up in the unit table.
InitTrip ==
    /\ Globals
    /\ argv = << >>
    /\ pc = "trip"
    /\ i = 1
    /\ quantity = << >> /\ object_from = << >> /\ object_to = << >>
    /\ to_found = FALSE /\ object = << >>
    /\ \E a \in 1..Len(unit_table), b \in 1..Len(unit_table) :
          /\ unit_table[a].second.type = unit_table[b].second.type
          /\ unit_from = unit_table[a].first /\ uf = unit_table[a].second
          /\ unit_to = unit_table[b].first /\ ut = unit_table[b].second
    /\ quantity_float \in TripQuantities
    /\ result = << 0, 1 >>
    /\ cout = << >> /\ cerr = << >>
    /\ exit_code = -1
    /\ rank = NoRank
    /\ rt = NoTrip

\* The quantity converted from the source unit to the target unit.
TripThere ==
    /\ pc = "trip"
    /\ rt' = [rt EXCEPT !.q = quantity_float,
                        !.there = convert(quantity_float, uf, ut)]
    /\ pc' = "trip_back"
    /\ UNCHANGED << tables, argv, i, quantity, unit_from, object_from, unit_to,
                    object_to, to_found, object, uf, ut, quantity_float,
                    result, cout, cerr, exit_code, rank >>

\* That result converted from the target unit back to the source unit.
TripBack ==
    /\ pc = "trip_back"
    /\ rt' = [rt EXCEPT !.back = convert(rt.there, ut, uf)]
    /\ pc' = "trip_done"
    /\ UNCHANGED << tables, argv, i, quantity, unit_from, object_from, unit_to,
                    object_to, to_found, object, uf, ut, quantity_float,
                    result, cout, cerr, exit_code, rank >>

NextTrip ==
    \/ TripThere
    \/ TripBack

SpecTrip == InitTrip /\ [][NextTrip]_vars

(***************************************************************************)
(* Vocabulary of the properties                                            *)
(***************************************************************************)

Done == pc = "done"

\* The first line on standard error names the error ("none" if there is none).
Error == IF cerr = << >> THEN "none" ELSE cerr[1][1]

E_separator == "syntax error: multiple 'to' or 'in' not allowed"
E_syntax    == "syntax error: expected"
E_mismatch  == "error: cannot convert a quantity of"
E_unit      == "error: unknown unit"
E_number    == "error: could not convert into a number"
E_missing   == "error: requires knowing the substance"
E_density   == "error: the density is unknown"
E_kinds     == "error: cannot convert from"

SyntaxErrors == { E_separator, E_syntax }
ErrorLines == { j \in 1..Len(cerr) :
                  cerr[j][1] \in { E_separator, E_syntax, E_mismatch, E_unit,
                                   E_number, E_missing, E_density, E_kinds } }

\* The run got past the usage test and the token loop.
Tokenized == Done /\ Len(argv) >= 4 /\ Error \notin SyntaxErrors

\* The unit table and the density table as the source text gives them.
KnownUnit(n) == n \in UnitNames
UnitOf(n) == unit_init[CHOOSE j \in 1..Len(unit_init) : unit_init[j][1] = n][2]
KindOf(n) == IF KnownUnit(n) THEN UnitOf(n).type ELSE "none"
DensityOf(n) ==
    density_init[CHOOSE j \in 1..Len(density_init) :
                    density_init[j][1] = n
                    /\ \A h \in 1..(j - 1) : density_init[h][1] # n][2]

\* The substances the request names.
Given == { object_from, object_to } \ { << >> }

WeightVolume == { KindOf(unit_from), KindOf(unit_to) } = { "weight", "volume" }
SameKind == KnownUnit(unit_from) /\ KindOf(unit_from) = KindOf(unit_to)

(***************************************************************************)
(* C1: exit code and output streams                                        *)
(***************************************************************************)

\* C1: every run ends with exit code 0 or 1; a run that exits 0 has written
\* exactly one line to standard output and nothing to standard error; a run
\* that exits 1 (usage included) has written its diagnostic to standard error
\* and nothing to standard output.
C1_StreamsFollowExitCode ==
    Done =>
        /\ exit_code \in { 0, 1 }
        /\ (exit_code = 0 => Len(cout) = 1 /\ cerr = << >>)
        /\ (exit_code = 1 => cerr # << >> /\ cout = << >>)

(***************************************************************************)
(* C2: the argument grammar                                                *)
(***************************************************************************)

IsSeparator(tok) == tolower(tok) \in { <<"t", "o">>, <<"i", "n">> }
IsOf(tok) == tolower(tok) = <<"o", "f">>
Plain(tok) == ~IsSeparator(tok) /\ ~IsOf(tok)

\* [of] [substance]
SubstancePart(r) ==
    \/ r = << >>
    \/ Len(r) = 1 /\ (IsOf(r[1]) \/ Plain(r[1]))
    \/ Len(r) = 2 /\ IsOf(r[1]) /\ Plain(r[2])

\* <quantity> <source unit> [of] [substance] (to|in) <target unit> [of] [substance]
WellFormed(a) ==
    \E sep \in 3..(Len(a) - 1) :
        /\ IsSeparator(a[sep])
        /\ \A j \in (1..Len(a)) \ { sep } : ~IsSeparator(a[j])
        /\ Plain(a[1]) /\ Plain(a[2])
        /\ SubstancePart(SubSeq(a, 3, sep - 1))
        /\ Plain(a[sep + 1])
        /\ SubstancePart(SubSeq(a, sep + 2, Len(a)))

\* C2: of the lists of 4 or more tokens, only those of the grammar get past
\* the token loop; every other one ends with a syntax error.
C2_OnlyTheGrammarTokenizes ==
    (Len(argv) >= 4 /\ pc \notin { "start", "scan" }) =>
        (WellFormed(argv) \/ (Done /\ Error \in SyntaxErrors))

(***************************************************************************)
(* C3: when a substance is required                                        *)
(***************************************************************************)

\* The run got as far as the weight/volume test: no syntax error, no
\* substance mismatch, both units known, the quantity a number.
ReachedDensity ==
    Tokenized /\ Error \notin { E_mismatch, E_unit, E_number }

\* C3 as first stated: a weight/volume run exits 0 only with a substance of
\* the density table, fails with the missing-substance error when no
\* substance is given and with the unknown-substance error when the substance
\* is not in the table; a same-kind run never fails with either error.
C3_AsStated ==
    Tokenized =>
        /\ (WeightVolume /\ exit_code = 0 =>
               Given # {} /\ Given \subseteq SubstanceNames)
        /\ (WeightVolume /\ Given = {} => Error = E_missing)
        /\ (WeightVolume /\ Given # {} /\ ~(Given \subseteq SubstanceNames) =>
               Error = E_density)
        /\ (SameKind => Error \notin { E_missing, E_density })

\* C3, amended: the same, the two errors being promised only to runs whose
\* two sides do not name different substances and whose quantity is a number.
C3_SubstanceRule ==
    Tokenized =>
        /\ (WeightVolume /\ exit_code = 0 =>
               Given # {} /\ Given \subseteq SubstanceNames)
        /\ (WeightVolume /\ ReachedDensity /\ Given = {} => Error = E_missing)
        /\ (WeightVolume /\ ReachedDensity /\ Given # {}
                /\ ~(Given \subseteq SubstanceNames) => Error = E_density)
        /\ (SameKind => Error \notin { E_missing, E_density })

\* A volume-to-weight request without a substance has been refused.
C3_Witness ==
    /\ Done /\ Error = E_missing
    /\ KindOf(unit_from) = "volume" /\ KindOf(unit_to) = "weight"
    /\ Given = {}

(***************************************************************************)
(* C4: the printed result                                                  *)
(***************************************************************************)

Num(n) == << n, 1 >>

\* The reference converter, from the names of the request and the tables.
Reference(q, from, to, substance) ==
    LET fs == UnitOf(from).to_si
        ft == UnitOf(to).to_si
    IN  IF KindOf(from) = "temperature"
        THEN IF from = to THEN q
             ELSE IF from = << "c" >>
             THEN Add(Div(Mul(Num(9), q), Num(5)), Num(32))
             ELSE Div(Mul(Num(5), Sub(q, Num(32))), Num(9))
        ELSE IF KindOf(from) = KindOf(to) THEN Div(Mul(q, fs), ft)
        ELSE IF KindOf(from) = "volume"
        THEN Div(Mul(q, Mul(fs, DensityOf(substance))), ft)
        ELSE Div(Mul(q, fs), Mul(ft, DensityOf(substance)))

\* C4: the result a successful run prints is the reference converter's.
C4_ResultIsReference ==
    (Done /\ exit_code = 0) =>
        /\ cout[1][1] = "result"
        /\ cout[1][5] = Reference(quantity_float, unit_from, unit_to, object)

\* A weight has been converted to a volume, the density on the target side.
C4_Witness ==
    /\ Done /\ exit_code = 0
    /\ KindOf(unit_from) = "weight" /\ KindOf(unit_to) = "volume"
    /\ DensityOf(object) # Num(1)
    /\ cout[1][5] # Div(Mul(quantity_float, UnitOf(unit_from).to_si),
                        UnitOf(unit_to).to_si)

(***************************************************************************)
(* C9: which error is reported                                             *)
(***************************************************************************)

\* The first fault of the request, in the order of the decision procedure.
FirstFault ==
    IF object_from # << >> /\ object_to # << >> /\ object_from # object_to
    THEN E_mismatch
    ELSE IF ~KnownUnit(unit_from) \/ ~KnownUnit(unit_to) THEN E_unit
    ELSE IF ~parse_quantity(quantity).ok THEN E_number
    ELSE IF WeightVolume /\ Given = {} THEN E_missing
    ELSE IF WeightVolume /\ ~(Given \subseteq SubstanceNames) THEN E_density
    ELSE IF ~WeightVolume /\ KindOf(unit_from) # KindOf(unit_to) THEN E_kinds
    ELSE "none"

\* The unit an unknown-unit error names: the source unit before the target.
FirstUnknownUnit ==
    IF ~KnownUnit(unit_from) THEN unit_from ELSE unit_to

\* C9: a tokenized request reports exactly one error, the first that applies
\* in the order mismatch, source unit, target unit, number, missing
\* substance, unknown substance, kinds; and nothing else is done after it.
C9_FirstFaultReported ==
    Tokenized =>
        /\ Error = FirstFault
        /\ (Error = E_unit => cerr[1][2] = FirstUnknownUnit)
        /\ (Error # "none" =>
               Cardinality(ErrorLines) = 1 /\ exit_code = 1 /\ cout = << >>)

\* A request with differing substances and an unknown unit and a bad number
\* has ended with the substance mismatch.
C9_Witness ==
    /\ Done /\ Error = E_mismatch
    /\ ~KnownUnit(unit_from)
    /\ ~parse_quantity(quantity).ok

(***************************************************************************)
(* C5: there and back                                                      *)
(***************************************************************************)

\* C5: for two units of one kind, converting q from A to B and the result
\* from B back to A gives q again.
C5_RoundTrip ==
    pc = "trip_done" => rt.back = rt.q

\* 400 has gone from Fahrenheit to Celsius and back.
C5_Witness ==
    /\ pc = "trip_done"
    /\ unit_from = << "f" >> /\ unit_to = << "c" >>
    /\ rt.q = Num(400) /\ rt.there # rt.q

(***************************************************************************)
(* C6, C7, C8, C10: the suggestion ranking                                 *)
(***************************************************************************)

\* The position of a key in the registry's own order.
KeyPosition(k) == CHOOSE j \in 1..Len(rank.keys) : rank.keys[j] = k

\* C6: the suggestion list holds every key of the registry exactly once, in
\* ascending order of string_distance to the unknown name, keys of equal
\* distance in the registry's own order.
C6_StableAscendingList ==
    rank.done =>
        /\ Len(rank.list) = Len(rank.keys)
        /\ \A j \in 1..Len(rank.keys) :
              \E h \in 1..Len(rank.list) : rank.list[h] = rank.keys[j]
        /\ \A a \in 1..Len(rank.list), b \in 1..Len(rank.list) :
              a < b =>
                 /\ ~SizeLess(rank.D[rank.list[b]], rank.D[rank.list[a]])
                 /\ (rank.D[rank.list[a]] = rank.D[rank.list[b]] =>
                        KeyPosition(rank.list[a]) < KeyPosition(rank.list[b]))

\* The mismatches of the shorter string laid on the longer one at offset k.
Mismatches(short, long, k) ==
    Cardinality({ j \in 1..Len(short) : short[j] # long[j + k] })

\* The metric as documented: d + the least mismatch count over the offsets
\* k in [0, d), for strings whose lengths differ by d > 0.
ReferenceDistance(a, b) ==
    LET short == IF Len(a) <= Len(b) THEN a ELSE b
        long  == IF Len(a) <= Len(b) THEN b ELSE a
        d     == Len(long) - Len(short)
        least == CHOOSE m \in 0..Len(short) :
                    /\ \E k \in 0..(d - 1) : Mismatches(short, long, k) = m
                    /\ \A k \in 0..(d - 1) : Mismatches(short, long, k) >= m
    IN  d + least

\* C7: for a name and a key of different lengths string_distance is the
\* documented metric.
C7_DistanceIsTheMetric ==
    rank.done =>
        \A j \in 1..Len(rank.keys) :
            Len(rank.keys[j]) # Len(rank.name) =>
                rank.D[rank.keys[j]]
                    = << 0, 0, 0, ReferenceDistance(rank.name, rank.keys[j]) >>

SameLength(k) == Len(k) = Len(rank.name)

\* C8: a key as long as the unknown name gets the distance 2^64 - 1, every
\* other key a smaller one, and so the keys as long as the name come after
\* all the others in the suggestion list.
C8_EqualLengthRanksLast ==
    rank.done =>
        /\ \A j \in 1..Len(rank.keys) :
              IF SameLength(rank.keys[j])
              THEN rank.D[rank.keys[j]] = << 65535, 65535, 65535, 65535 >>
              ELSE /\ rank.D[rank.keys[j]][1] = 0
                   /\ rank.D[rank.keys[j]][2] = 0
                   /\ rank.D[rank.keys[j]][3] = 0
                   /\ rank.D[rank.keys[j]][4] <= Len(rank.keys[j]) + Len(rank.name)
        /\ \A a \in 1..Len(rank.list), b \in 1..Len(rank.list) :
              (SameLength(rank.list[a]) /\ ~SameLength(rank.list[b])) => b < a

\* A ranking in which a key as long as the name stood before a key of another
\* length in the registry and stands after it in the list.
C8_Witness ==
    /\ rank.done
    /\ \E a \in 1..Len(rank.keys), b \in 1..Len(rank.keys) :
          /\ a < b
          /\ SameLength(rank.keys[a]) /\ ~SameLength(rank.keys[b])
          /\ \E h \in 1..Len(rank.list), g \in 1..Len(rank.list) :
                g < h /\ rank.list[h] = rank.keys[a] /\ rank.list[g] = rank.keys[b]

\* C10: every index string_distance reads lies within the string read.
C10_ReadsInBounds ==
    rank.done => \A r \in rank.reads : r[1] < r[2]

====
